---------------------------- MODULE Spec2Model ----------------------------
(***************************************************************************)
(* Terminal Mentor (src/app/src/app/page.tsx): the HomePage component's    *)
(* session state, its submit / key handlers, the command dispatcher and    *)
(* the quiz state machine.                                                 *)
(*                                                                         *)
(* Text is modelled as a sequence of characters (one-character strings),   *)
(* so that trim, toLowerCase, split and join are computed, not assumed.    *)
(* Static output text of the assistant is kept as one chunk per literal.   *)
(* A nullable value (pendingState, historyIndexRef.current) is <<>> for    *)
(* null and <<v>> for the value v.                                         *)
(***************************************************************************)
EXTENDS Integers, Sequences, FiniteSets, TLC

(***************************************************************************)
(* Bounds of the model.                                                    *)
(***************************************************************************)
\* accepted (non-empty) submissions explored from the initial state; turns
\* counts them
MaxTurns == 4

\* accepted submissions explored from a pre-filled recall buffer
MaxRecallTurns == 1

\* entries missing from a full recall buffer in the smallest pre-filled
\* initial state of SpecRecall
RecallSlack == 1

\* accepted submissions explored in the sessions with a wide vocabulary
MaxShortTurns == 2

(***************************************************************************)
(* Program constants.                                                      *)
(***************************************************************************)
MAX_HISTORY_COMMANDS == 30

(***************************************************************************)
(* String primitives of the JavaScript runtime used by the component.      *)
(***************************************************************************)
WhiteSpace == {" ", "\t"}

UpperToLower ==
  [c \in {"A","B","C","D","E","F","G","H","I","J","K","L","M",
          "N","O","P","Q","R","S","T","U","V","W","X","Y","Z"} |->
     CASE c = "A" -> "a" [] c = "B" -> "b" [] c = "C" -> "c" [] c = "D" -> "d"
       [] c = "E" -> "e" [] c = "F" -> "f" [] c = "G" -> "g" [] c = "H" -> "h"
       [] c = "I" -> "i" [] c = "J" -> "j" [] c = "K" -> "k" [] c = "L" -> "l"
       [] c = "M" -> "m" [] c = "N" -> "n" [] c = "O" -> "o" [] c = "P" -> "p"
       [] c = "Q" -> "q" [] c = "R" -> "r" [] c = "S" -> "s" [] c = "T" -> "t"
       [] c = "U" -> "u" [] c = "V" -> "v" [] c = "W" -> "w" [] c = "X" -> "x"
       [] c = "Y" -> "y" [] c = "Z" -> "z"]

\* String.prototype.toLowerCase
toLowerCase(s) ==
  [i \in 1..Len(s) |-> IF s[i] \in DOMAIN UpperToLower THEN UpperToLower[s[i]] ELSE s[i]]

RECURSIVE trimStart(_)
trimStart(s) ==
  IF s # <<>> /\ Head(s) \in WhiteSpace THEN trimStart(Tail(s)) ELSE s

RECURSIVE trimEnd(_)
trimEnd(s) ==
  IF s # <<>> /\ s[Len(s)] \in WhiteSpace THEN trimEnd(SubSeq(s, 1, Len(s) - 1)) ELSE s

\* String.prototype.trim
trim(s) == trimEnd(trimStart(s))

\* String.prototype.split(" "): cuts at every single space character
RECURSIVE splitSpace(_)
splitSpace(s) ==
  IF \A i \in 1..Len(s) : s[i] # " "
    THEN <<s>>
    ELSE LET i == CHOOSE k \in 1..Len(s) :
                    s[k] = " " /\ \A j \in 1..(k - 1) : s[j] # " "
         IN  <<SubSeq(s, 1, i - 1)>> \o splitSpace(SubSeq(s, i + 1, Len(s)))

\* Array.prototype.join(" ")
RECURSIVE joinSpace(_)
joinSpace(parts) ==
  IF parts = <<>> THEN <<>>
  ELSE IF Len(parts) = 1 THEN parts[1]
  ELSE parts[1] \o <<" ">> \o joinSpace(Tail(parts))

\* String.prototype.slice(0, n)
sliceTo(s, n) == SubSeq(s, 1, IF n < Len(s) THEN n ELSE Len(s))

\* Math.ceil(n / 2) for n >= 0
ceilHalf(n) == (n + 1) \div 2

\* Array.prototype.filter((item) => item !== x)
RECURSIVE filterOut(_, _)
filterOut(seq, x) ==
  IF seq = <<>> THEN <<>>
  ELSE IF Head(seq) = x THEN filterOut(Tail(seq), x)
  ELSE <<Head(seq)>> \o filterOut(Tail(seq), x)

\* nullable values
Null == <<>>
Some(v) == <<v>>

\* a normalizer that forgets to trim
normalizeInput_noTrim(value) == value

normalizeInput(value) == trim(value)


(***************************************************************************)
(* Text typed by the user, spelled as character sequences.                 *)
(***************************************************************************)
L_quiz    == <<"q","u","i","z">>
L_Reto    == <<"R","e","t","o">>
L_hint    == <<"h","i","n","t">>
L_Pista   == <<" ","P","i","s","t","a">>
L_Skip    == <<"S","k","i","p"," ">>
L_omitir  == <<"o","m","i","t","i","r">>
L_clear   == <<"c","l","e","a","r">>
L_CLS     == <<"C","L","S">>
L_help    == <<"h","e","l","p">>
L_tcp     == <<"t","c","p">>
L_blank   == <<" "," ">>

\* the i-th filler line: i times the letter x (an unknown command)
Filler(i) == [k \in 1..i |-> "x"]

(***************************************************************************)
(* The content store (@/data/knowledge): static, read-only data.           *)
(***************************************************************************)
Q_tcp ==
  [prompt      |-> <<"Que protocolo de transporte garantiza la entrega?">>,
   answer      |-> <<"T","C","P">>,
   explanation |-> <<"TCP confirma cada segmento.">>,
   choices     |-> Some(<< <<"TCP">>, <<"UDP">>, <<"ICMP">> >>)]

Q_help ==
  [prompt      |-> <<"Que comando lista los comandos del mentor?">>,
   answer      |-> <<"H","e","l","p">>,
   explanation |-> <<"help muestra la referencia de comandos.">>,
   choices     |-> Null]

\* a topic of the catalog; the prose fields are filled with short stand-ins
MkTopic(id, title, aliases, keywords, quiz, labs) ==
  [id           |-> id,
   title        |-> title,
   aliases      |-> aliases,
   keywords     |-> keywords,
   summary      |-> <<"Resumen de ">> \o title,
   fundamentals |-> << <<"fundamento 1">>, <<"fundamento 2">>, <<"fundamento 3">>, <<"fundamento 4">> >>,
   advanced     |-> << <<"avanzado 1">> >>,
   quickWins    |-> << <<"quick win 1">> >>,
   warningSigns |-> << <<"alerta 1">> >>,
   studyPath    |-> << <<"paso 1">>, <<"paso 2">> >>,
   resources    |-> << [title |-> <<"Guia de ">> \o title, url |-> <<"https://example.org/">> \o id,
                        description |-> <<"lectura base">>] >>,
   quiz         |-> quiz,
   labs         |-> labs]

Lab_redes ==
  [title |-> <<"Captura de trafico">>, difficulty |-> <<"Basico">>, time |-> <<"45 min">>,
   goal |-> <<"Inspeccionar un handshake">>,
   steps |-> << <<"captura">>, <<"filtra">> >>,
   checklist |-> << <<"handshake identificado">> >>]

T_redes ==
  MkTopic(<<"r","e","d","e","s">>, <<"Redes">>, { <<"r","e","d","e","s">>, <<"n","e","t">> }, { <<"r","e","d","e","s">>, <<"t","c","p">> },
          <<Q_tcp>>, <<Lab_redes>>)

T_mentor ==
  MkTopic(<<"m","e","n","t","o","r">>, <<"Mentor">>, { <<"m","e","n","t","o","r">> }, { <<"m","e","n","t","o","r">> },
          <<Q_help>>, <<>>)

T_web ==
  MkTopic(<<"w","e","b">>, <<"Web">>, { <<"w","e","b">> }, { <<"w","e","b">>, <<"x","s","s">> },
          <<>>, <<>>)

Catalog == <<T_redes, T_mentor, T_web>>

Glossary ==
  << [term |-> <<"I","D","S">>, definition |-> <<"Sistema de deteccion de intrusos">>,
      context |-> <<"Monitoreo de red">>],
     [term |-> <<"V","P","N">>, definition |-> <<"Red privada virtual">>,
      context |-> <<"Acceso remoto">>] >>

StudyRoadmap == << <<"Semana 1: redes">>, <<"Semana 2: web">> >>

DailySuggestions == << <<"Revisa los logs de tu router">>, <<"Resuelve un reto CTF">> >>

MotivationalTips == << <<"La constancia vence al talento">>, <<"Documenta lo que aprendes">> >>

(***************************************************************************)
(* State of the component.                                                 *)
(***************************************************************************)
VARIABLES
  history,          \* useState<HistoryEntry[]>: the transcript
  inputValue,       \* useState<string>: the text in the input box
  pendingState,     \* useState<PendingState>: Null or Some(quiz record)
  sessionStats,     \* useState<SessionStats>
  commandHistory,   \* useState<string[]>: the recall buffer, newest first
  historyIndexRef,  \* useRef<number | null>: the recall cursor
  topics,           \* the imported catalog of the content store
  turns,            \* accepted submissions explored so far (bounds the model)
  started           \* quiz rounds started so far (history variable)

vars == <<history, inputValue, pendingState, sessionStats, commandHistory,
          historyIndexRef, topics, turns, started>>

initialHistory ==
  << [id      |-> "boot-message",
      role    |-> "system",
      content |-> << <<"Inicializando Terminal Mentor v1.0 ...">>,
                     <<"Asistente interactivo para aprender y practicar ciberseguridad.">>,
                     <<"Escribe 'help' para ver comandos disponibles o 'topics' para explorar rutas de estudio.">> >>] >>

initialStats == [answered |-> 0, correct |-> 0, streak |-> 0]

Init ==
  /\ history = initialHistory
  /\ inputValue = <<>>
  /\ pendingState = Null
  /\ sessionStats = initialStats
  /\ commandHistory = <<>>
  /\ historyIndexRef = Null
  /\ topics = Catalog
  /\ turns = 0
  /\ started = 0

(***************************************************************************)
(* Transcript helpers.                                                     *)
(***************************************************************************)
\* an updater that puts the new entry first: [entry, ...prev]
addEntry_newestFirst(h, role, lines) ==
  <<[id |-> "generated", role |-> role, content |-> lines]>> \o h

\* makeId() is a timestamp and a random suffix: only its being generated is kept
addEntry(h, role, lines) ==
  Append(h, [id |-> "generated", role |-> role, content |-> lines])

showAssistant(h, lines) == addEntry(h, "assistant", lines)

\* a reset that confirms but forgets to replace the transcript
resetTerminal_keepsTranscript(h) ==
  [history      |-> showAssistant(h, << <<"Pantalla limpia. Continuemos.">> >>),
   pendingState |-> Null]

\* setHistory(initialHistory); setPendingState(null); showAssistant([...])
resetTerminal(h) ==
  [history      |-> showAssistant(initialHistory, << <<"Pantalla limpia. Continuemos.">> >>),
   pendingState |-> Null]

\* Math.round(correct / answered * 100), both operands non-negative
buildSessionStatus(stats) ==
  LET accuracy == IF stats.answered = 0 THEN 0
                  ELSE (200 * stats.correct + stats.answered) \div (2 * stats.answered)
  IN  <<"Sesion | Resueltas: ", ToString(stats.answered),
        " | Correctas: ", ToString(stats.correct),
        " | Precision: ", ToString(accuracy), "%",
        " | Racha: ", ToString(stats.streak)>>

(***************************************************************************)
(* Quiz state machine: handleQuizAnswer.                                   *)
(***************************************************************************)
S_hint == <<"h","i","n","t">>
S_pista == <<"p","i","s","t","a">>
S_skip == <<"s","k","i","p">>
S_omitir == <<"o","m","i","t","i","r">>

isHintToken(normalized) == normalized = S_hint \/ normalized = S_pista

isSkipToken(normalized) == normalized = S_skip \/ normalized = S_omitir

\* a comparison that forgets to lower-case the stored answer
isCorrectAnswer_caseSensitive(normalized, question) == normalized = question.answer

\* normalized === question.answer.toLowerCase()
isCorrectAnswer(normalized, question) == normalized = toLowerCase(question.answer)

\* a miss that forgets to reset the streak
statsAfterMiss_keepsStreak(stats) ==
  [answered |-> stats.answered + 1, correct |-> stats.correct, streak |-> stats.streak]

\* the stats of a round resolved without credit (skipped, or failed twice)
statsAfterMiss(stats) ==
  [answered |-> stats.answered + 1, correct |-> stats.correct, streak |-> 0]

\* a right answer that is credited without being counted as answered
statsAfterHit_notCounted(stats) ==
  [answered |-> stats.answered, correct |-> stats.correct + 1,
   streak |-> stats.streak + 1]

\* an update of a correct answer that counts the streak but not the answer
statsAfterHit_streakOnly(stats) ==
  [answered |-> stats.answered + 1, correct |-> stats.correct, streak |-> stats.streak + 1]

\* the stats of a round resolved by the right answer
statsAfterHit(stats) ==
  [answered |-> stats.answered + 1, correct |-> stats.correct + 1,
   streak |-> stats.streak + 1]

\* an attempt limit that is off by one
attemptsExhausted_offByOne(attempts) == attempts > 2

\* pendingState.attempts + 1 >= 2: the wrong answer that ends the round
attemptsExhausted(attempts) == attempts >= 2

hintText(question) ==
  <<"Pista: ">> \o sliceTo(question.answer, ceilHalf(Len(question.answer))) \o <<"...">>

\* a hint branch that charges an attempt for each hint request
quizHint_countsAttempt(h, ps, stats) ==
  [history      |-> showAssistant(h, << hintText(ps[1].question) >>),
   pendingState |-> Some([ps[1] EXCEPT !.revealedHint = TRUE, !.attempts = @ + 1]),
   sessionStats |-> stats]

\* a hint branch that gives the attempts back
quizHint_resetsAttempts(h, ps, stats) ==
  IF ps[1].revealedHint
    THEN [history      |-> showAssistant(h,
                             << <<"Ya mostre una pista para esta pregunta. Intenta una respuesta.">> >>),
          pendingState |-> Some([ps[1] EXCEPT !.attempts = 0]),
          sessionStats |-> stats]
    ELSE [history      |-> showAssistant(h, << hintText(ps[1].question) >>),
          pendingState |-> Some([ps[1] EXCEPT !.revealedHint = TRUE, !.attempts = 0]),
          sessionStats |-> stats]

\* the hint branch: (normalized === "hint" || normalized === "pista")
quizHint(h, ps, stats) ==
  IF ps[1].revealedHint
    THEN [history      |-> showAssistant(h,
                             << <<"Ya mostre una pista para esta pregunta. Intenta una respuesta.">> >>),
          pendingState |-> ps,
          sessionStats |-> stats]
    ELSE [history      |-> showAssistant(h, << hintText(ps[1].question) >>),
          pendingState |-> Some([ps[1] EXCEPT !.revealedHint = TRUE]),
          sessionStats |-> stats]

\* the skip branch: (normalized === "skip" || normalized === "omitir")
quizSkip(h, ps, stats) ==
  LET updatedStats == statsAfterMiss(stats)
      question     == ps[1].question
  IN  [history      |-> showAssistant(h,
                          << <<"Pregunta omitida. Respuesta correcta: ">> \o question.answer,
                             <<"Explicacion: ">> \o question.explanation,
                             buildSessionStatus(updatedStats) >>),
       pendingState |-> Null,
       sessionStats |-> updatedStats]

\* the isCorrect branch
quizCorrect(h, ps, stats) ==
  LET updatedStats == statsAfterHit(stats)
      question     == ps[1].question
  IN  [history      |-> showAssistant(h,
                          << <<"Correcto!">>,
                             <<"Explicacion: ">> \o question.explanation,
                             buildSessionStatus(updatedStats),
                             <<"Escribe 'quiz' para otra pregunta o explora con 'lesson <tema>'.">> >>),
       pendingState |-> Null,
       sessionStats |-> updatedStats]

\* a wrong-answer branch that counts every miss as an answered question
quizWrong_countsEveryMiss(h, ps, stats) ==
  LET attempts     == ps[1].attempts + 1
      question     == ps[1].question
      updatedStats == statsAfterMiss(stats)
  IN  IF attemptsExhausted(attempts)
        THEN [history      |-> showAssistant(h,
                                 << <<"Respuesta incorrecta.">>,
                                    <<"La respuesta correcta es: ">> \o question.answer,
                                    <<"Explicacion: ">> \o question.explanation,
                                    buildSessionStatus(updatedStats),
                                    <<"Puedes escribir 'quiz' para intentar otra o 'lesson <tema>' para repasar.">> >>),
              pendingState |-> Null,
              sessionStats |-> updatedStats]
        ELSE [history      |-> showAssistant(h,
                                 << <<"Respuesta incorrecta. Puedes intentar nuevamente, pedir 'hint' o escribir 'skip'.">> >>),
              pendingState |-> Some([ps[1] EXCEPT !.attempts = attempts]),
              sessionStats |-> updatedStats]

\* the else branch: a wrong answer
quizWrong(h, ps, stats) ==
  LET attempts == ps[1].attempts + 1
      question == ps[1].question
  IN  IF attemptsExhausted(attempts)
        THEN LET updatedStats == statsAfterMiss(stats)
             IN  [history      |-> showAssistant(h,
                                     << <<"Respuesta incorrecta.">>,
                                        <<"La respuesta correcta es: ">> \o question.answer,
                                        <<"Explicacion: ">> \o question.explanation,
                                        buildSessionStatus(updatedStats),
                                        <<"Puedes escribir 'quiz' para intentar otra o 'lesson <tema>' para repasar.">> >>),
                  pendingState |-> Null,
                  sessionStats |-> updatedStats]
        ELSE [history      |-> showAssistant(h,
                                 << <<"Respuesta incorrecta. Puedes intentar nuevamente, pedir 'hint' o escribir 'skip'.">> >>),
              pendingState |-> Some([ps[1] EXCEPT !.attempts = attempts]),
              sessionStats |-> stats]

\* handleQuizAnswer(value) with the state its closure holds; the new
\* history, pendingState and sessionStats
handleQuizAnswer(h, ps, stats, value) ==
  IF ps = Null \/ ps[1].type # "quiz"
    THEN [history |-> h, pendingState |-> ps, sessionStats |-> stats]
    ELSE LET normalized == toLowerCase(trim(value))
         IN  IF isHintToken(normalized) THEN quizHint(h, ps, stats)
             ELSE IF isSkipToken(normalized) THEN quizSkip(h, ps, stats)
             ELSE IF isCorrectAnswer(normalized, ps[1].question)
               THEN quizCorrect(h, ps, stats)
               ELSE quizWrong(h, ps, stats)

(***************************************************************************)
(* Query interface of the content store.                                   *)
(***************************************************************************)
RECURSIVE flatten(_)
flatten(seqs) == IF seqs = <<>> THEN <<>> ELSE Head(seqs) \o flatten(Tail(seqs))

firstOrNull(seq) == IF seq = <<>> THEN Null ELSE Some(Head(seq))

findTopicByAlias(alias) ==
  LET Hit(t) == toLowerCase(trim(alias)) \in t.aliases
  IN  firstOrNull(SelectSeq(topics, Hit))

searchTopics(term) ==
  LET Hit(t) == toLowerCase(trim(term)) \in t.keywords
  IN  SelectSeq(topics, Hit)

matchQuestionToTopic(freeText) ==
  LET words  == splitSpace(toLowerCase(freeText))
      Hit(t) == \E i \in 1..Len(words) : words[i] \in t.keywords
  IN  firstOrNull(SelectSeq(topics, Hit))

getAllQuizQuestions == flatten([i \in 1..Len(topics) |-> topics[i].quiz])

lookupGlossary(term) ==
  LET Hit(e) == toLowerCase(e.term) = toLowerCase(trim(term))
  IN  firstOrNull(SelectSeq(Glossary, Hit))

(***************************************************************************)
(* Formatting helpers.                                                     *)
(***************************************************************************)
\* String.prototype.padEnd(n, " ")
padEnd(s, n) == s \o [k \in 1..(n - Len(s)) |-> " "]

formatList(title, items) ==
  << <<"# ">> \o title >> \o
  [i \in 1..Len(items) |-> <<"  ", ToString(i), ". ">> \o items[i]]

formatBullets(items) == [i \in 1..Len(items) |-> <<"* ">> \o items[i]]

helpCards ==
  << [command |-> <<"h","e","l","p">>, description |-> <<"Muestra los comandos disponibles.">>],
     [command |-> <<"t","o","p","i","c","s">>, description |-> <<"Lista tematicas principales y resumen.">>],
     [command |-> <<"l","e","s","s","o","n"," ","<","t","e","m","a",">">>, description |-> <<"Explica un tema en profundidad.">>],
     [command |-> <<"r","e","s","o","u","r","c","e","s"," ","[","t","e","m","a","]">>, description |-> <<"Recursos recomendados por tema.">>],
     [command |-> <<"l","a","b","s"," ","[","t","e","m","a","]">>, description |-> <<"Laboratorios practicos guiados.">>],
     [command |-> <<"q","u","i","z"," ","[","t","e","m","a","]">>, description |-> <<"Pregunta de repaso con opcion a pista.">>],
     [command |-> <<"g","l","o","s","s","a","r","y"," ","<","t","e","r","m","i","n","o",">">>, description |-> <<"Definicion rapida de conceptos.">>],
     [command |-> <<"q","u","e","s","t","i","o","n"," ","<","t","u"," ","d","u","d","a",">">>, description |-> <<"Consulta libre con contexto.">>],
     [command |-> <<"s","e","a","r","c","h"," ","<","p","a","l","a","b","r","a",">">>, description |-> <<"Busca temas relacionados.">>],
     [command |-> <<"r","o","a","d","m","a","p">>, description |-> <<"Ruta de aprendizaje sugerida.">>],
     [command |-> <<"s","u","g","g","e","s","t">>, description |-> <<"Actividad del dia para practicar.">>],
     [command |-> <<"s","t","a","t","u","s">>, description |-> <<"Estadisticas de sesion y motivacion.">>],
     [command |-> <<"c","l","e","a","r">>, description |-> <<"Limpia el historial de la terminal.">>] >>

\* the title is a literal chunk: its upper-casing is not spelled out
summarizeTopic(topic) ==
  << <<"== ">> \o topic.title \o <<" ==">>, topic.summary, <<>>,
     <<"Fundamentos clave:">> >> \o formatBullets(topic.fundamentals) \o
  << <<>>, <<"Nivel intermedio/avanzado:">> >> \o formatBullets(topic.advanced) \o
  << <<>>, <<"Quick wins:">> >> \o formatBullets(topic.quickWins) \o
  << <<>>, <<"Alertas tempranas:">> >> \o formatBullets(topic.warningSigns) \o
  << <<>>, <<"Ruta sugerida:">> >> \o formatBullets(topic.studyPath)

\* formatResources(topic?): topic is Null or Some(topic)
formatResources(topic) ==
  IF topic = Null
    THEN << <<"Recursos recomendados por tematica:">> >> \o
         flatten([i \in 1..Len(topics) |->
           << <<"> ">> \o topics[i].title >> \o
           [j \in 1..Len(topics[i].resources) |->
              <<"  - ">> \o topics[i].resources[j].title \o <<": ">> \o topics[i].resources[j].url]])
    ELSE << <<"Recursos para ">> \o topic[1].title \o <<":">> >> \o
         [j \in 1..Len(topic[1].resources) |->
            <<"- ">> \o topic[1].resources[j].title \o <<": ">> \o topic[1].resources[j].url
              \o <<" (">> \o topic[1].resources[j].description \o <<")">>]

\* formatLabs(topic?): topic is Null or Some(topic)
formatLabs(topic) ==
  IF topic = Null
    THEN << <<"Laboratorios disponibles:">> >> \o
         flatten([i \in 1..Len(topics) |->
           [j \in 1..Len(topics[i].labs) |->
              <<"[">> \o topics[i].title \o <<"] ">> \o topics[i].labs[j].title \o <<" (">> \o
              topics[i].labs[j].difficulty \o <<" . ">> \o topics[i].labs[j].time \o <<") -> ">> \o
              topics[i].labs[j].goal]]) \o
         << <<"Usa 'labs <tema>' para ver pasos detallados.">> >>
    ELSE IF Len(topic[1].labs) = 0
      THEN << <<"Aun no hay laboratorios documentados para ">> \o topic[1].title \o <<".">> >>
      ELSE LET lab == topic[1].labs[1]
           IN  << lab.title \o <<" | Dificultad: ">> \o lab.difficulty \o <<" | Duracion: ">> \o lab.time,
                  <<"Objetivo: ">> \o lab.goal, <<>>, <<"Pasos:">> >> \o formatBullets(lab.steps) \o
               << <<>>, <<"Checklist de exito:">> >> \o formatBullets(lab.checklist)

\* a picker that forgets the topic argument
pickQuizQuestion_ignoresTopic(topicAlias) ==
  LET questions == getAllQuizQuestions
  IN  IF Len(questions) = 0 THEN {Null}
      ELSE {Some(questions[i]) : i \in 1..Len(questions)}

\* pickQuizQuestion(topicAlias?): every question Math.random can select,
\* {Null} when there is none
pickQuizQuestion(topicAlias) ==
  LET matchingTopic == IF topicAlias # <<>> THEN findTopicByAlias(topicAlias) ELSE Null
      questions     == getAllQuizQuestions
  IN  IF matchingTopic # Null /\ Len(matchingTopic[1].quiz) > 0
        THEN {Some(matchingTopic[1].quiz[i]) : i \in 1..Len(matchingTopic[1].quiz)}
        ELSE IF Len(questions) = 0 THEN {Null}
        ELSE {Some(questions[i]) : i \in 1..Len(questions)}

answerNaturalQuestion(query) ==
  LET found == matchQuestionToTopic(query)
      topic == IF found # Null THEN found[1] ELSE topics[1]
  IN  << <<"Tema sugerido: ">> \o topic.title, <<"Resumen: ">> \o topic.summary, <<>>,
         <<"Puntos clave:">> >> \o formatBullets(sliceTo(topic.fundamentals, 3)) \o
      << <<>>, <<"Recomendacion:">>,
         <<"* Revisa la leccion con 'lesson ">> \o topic.id \o <<"'.">>,
         <<"* Programa un laboratorio practico con 'labs ">> \o topic.id \o <<"'.">> >>

(***************************************************************************)
(* Command dispatcher: handleCommand.                                      *)
(***************************************************************************)
K_help == <<"h","e","l","p">>
K_qmark == <<"?">>
K_topics == <<"t","o","p","i","c","s">>
K_lesson == <<"l","e","s","s","o","n">>
K_tema == <<"t","e","m","a">>
K_topic == <<"t","o","p","i","c">>
K_resources == <<"r","e","s","o","u","r","c","e","s">>
K_recursos == <<"r","e","c","u","r","s","o","s">>
K_labs == <<"l","a","b","s">>
K_lab == <<"l","a","b">>
K_quiz == <<"q","u","i","z">>
K_reto == <<"r","e","t","o">>
K_glossary == <<"g","l","o","s","s","a","r","y">>
K_glosario == <<"g","l","o","s","a","r","i","o">>
K_search == <<"s","e","a","r","c","h">>
K_buscar == <<"b","u","s","c","a","r">>
K_roadmap == <<"r","o","a","d","m","a","p">>
K_ruta == <<"r","u","t","a">>
K_suggest == <<"s","u","g","g","e","s","t">>
K_actividad == <<"a","c","t","i","v","i","d","a","d">>
K_status == <<"s","t","a","t","u","s">>
K_question == <<"q","u","e","s","t","i","o","n">>
K_pregunta == <<"p","r","e","g","u","n","t","a">>
K_clear == <<"c","l","e","a","r">>
K_cls == <<"c","l","s">>

\* const [command, ...argsParts] = trimmed.split(" ")
parseCommand(trimmed) ==
  LET parts == splitSpace(trimmed)
  IN  [commandKey |-> toLowerCase(parts[1]),
       argString  |-> trim(joinSpace(Tail(parts)))]

\* a turn of the dispatcher that only prints
say(h, ps, lines) == { [history |-> showAssistant(h, lines), pendingState |-> ps] }

\* case "quiz" / "reto"
commandQuiz(h, ps, argString) ==
  { IF picked = Null
      THEN [history      |-> showAssistant(h, << <<"No hay preguntas disponibles por ahora.">> >>),
            pendingState |-> ps]
      ELSE [history      |-> showAssistant(h,
                               << <<"Pregunta: ">> \o picked[1].prompt >> \o
                               (IF picked[1].choices # Null
                                  THEN << <<"Opciones: ">> \o flatten(picked[1].choices[1]) >>
                                  ELSE <<>>) \o
                               << <<"Responde, pide 'hint' para una pista o escribe 'skip' para saltar.">> >>),
            pendingState |-> Some([type |-> "quiz", question |-> picked[1],
                                   attempts |-> 0, revealedHint |-> FALSE])]
    : picked \in pickQuizQuestion(argString) }

\* case "lesson" / "tema" / "topic"
commandLesson(h, ps, argString) ==
  IF argString = <<>>
    THEN say(h, ps, << <<"Debes indicar un tema. Ejemplo: 'lesson redes'">> >>)
    ELSE LET topic == findTopicByAlias(argString)
         IN  IF topic = Null
               THEN LET related == searchTopics(argString)
                    IN  IF Len(related) = 0
                          THEN say(h, ps, << <<"No encontre un tema llamado ">> \o argString
                                             \o <<". Usa 'topics' para ver opciones.">> >>)
                          ELSE say(h, ps,
                                 << <<"No encontre coincidencia exacta. Quizas buscas alguno de estos?">> >> \o
                                 [i \in 1..Len(related) |->
                                    <<"- ">> \o related[i].id \o <<": ">> \o related[i].title])
               ELSE say(h, ps, summarizeTopic(topic[1]))

\* a glossary case that prints nothing when the term is not found
commandGlossary_silentMiss(h, ps, argString) ==
  IF argString = <<>>
    THEN say(h, ps, [i \in 1..Len(Glossary) |->
                       Glossary[i].term \o <<": ">> \o Glossary[i].definition])
    ELSE LET entry == lookupGlossary(argString)
         IN  IF entry = Null
               THEN { [history |-> h, pendingState |-> ps] }
               ELSE say(h, ps, << entry[1].term \o <<": ">> \o entry[1].definition,
                                  <<"Contexto: ">> \o entry[1].context >>)

\* case "glossary" / "glosario"
commandGlossary(h, ps, argString) ==
  IF argString = <<>>
    THEN say(h, ps, [i \in 1..Len(Glossary) |->
                       Glossary[i].term \o <<": ">> \o Glossary[i].definition])
    ELSE LET entry == lookupGlossary(argString)
         IN  IF entry = Null
               THEN say(h, ps, << <<"No encontre ">> \o argString
                                  \o <<". Usa 'glossary' para listar conceptos.">> >>)
               ELSE say(h, ps, << entry[1].term \o <<": ">> \o entry[1].definition,
                                  <<"Contexto: ">> \o entry[1].context >>)

\* case "search" / "buscar"
commandSearch(h, ps, argString) ==
  IF argString = <<>>
    THEN say(h, ps, << <<"Incluye un termino. Ejemplo: 'search mitre'">> >>)
    ELSE LET results == searchTopics(argString)
         IN  IF Len(results) = 0
               THEN say(h, ps, << <<"No hay coincidencias para ">> \o argString
                                  \o <<". Intenta con otro termino.">> >>)
               ELSE say(h, ps,
                      << <<"Resultados (", ToString(Len(results)), "):">> >> \o
                      [i \in 1..Len(results) |->
                         results[i].id \o <<" -> ">> \o results[i].title \o <<" | ">> \o results[i].summary])

\* the default case: an unrecognized command token
unknownCommand(commandKey) ==
  << <<"Comando desconocido: ">> \o commandKey,
     <<"Escribe 'help' para ver opciones disponibles.">> >>

\* switch (commandKey): every new (history, pendingState) the random
\* choices allow
switchCommand(h, ps, stats, commandKey, argString) ==
  CASE commandKey \in {K_help, K_qmark} ->
         say(h, ps, << <<"Comandos disponibles:">> >> \o
                    [i \in 1..Len(helpCards) |->
                       padEnd(helpCards[i].command, 18) \o <<" - ">> \o helpCards[i].description])
    [] commandKey = K_topics ->
         say(h, ps, << <<"Temas activos:">> >> \o
                    [i \in 1..Len(topics) |->
                       padEnd(topics[i].id, 12) \o <<" | ">> \o topics[i].title
                         \o <<" -> ">> \o topics[i].summary] \o
                    << <<"Explora detalles con 'lesson <tema>'.">> >>)
    [] commandKey \in {K_lesson, K_tema, K_topic} -> commandLesson(h, ps, argString)
    [] commandKey \in {K_resources, K_recursos} ->
         say(h, ps, formatResources(IF argString # <<>> THEN findTopicByAlias(argString) ELSE Null))
    [] commandKey \in {K_labs, K_lab} ->
         say(h, ps, formatLabs(IF argString # <<>> THEN findTopicByAlias(argString) ELSE Null))
    [] commandKey \in {K_quiz, K_reto} -> commandQuiz(h, ps, argString)
    [] commandKey \in {K_glossary, K_glosario} -> commandGlossary(h, ps, argString)
    [] commandKey \in {K_search, K_buscar} -> commandSearch(h, ps, argString)
    [] commandKey \in {K_roadmap, K_ruta} ->
         say(h, ps, formatList(<<"Ruta sugerida de 6 semanas">>, StudyRoadmap))
    [] commandKey \in {K_suggest, K_actividad} ->
         UNION { say(h, ps, << <<"Actividad recomendada: ">> \o DailySuggestions[i],
                               <<"Comparte conclusiones en tu bitacora personal.">> >>)
                 : i \in 1..Len(DailySuggestions) }
    [] commandKey = K_status ->
         UNION { say(h, ps, << buildSessionStatus(stats), <<"Tip: ">> \o MotivationalTips[i] >>)
                 : i \in 1..Len(MotivationalTips) }
    [] commandKey \in {K_question, K_pregunta} ->
         IF argString = <<>>
           THEN say(h, ps, << <<"Formula tu duda. Ejemplo: 'question diferencia entre ids e ips'.">> >>)
           ELSE say(h, ps, answerNaturalQuestion(argString))
    [] commandKey \in {K_clear, K_cls} -> { resetTerminal(h) }
    [] OTHER -> say(h, ps, unknownCommand(commandKey))

\* handleCommand(rawInput) with the state its closure holds
handleCommand(h, ps, stats, rawInput) ==
  LET trimmed == normalizeInput(rawInput)
  IN  IF trimmed = <<>> THEN { [history |-> h, pendingState |-> ps] }
      ELSE switchCommand(h, ps, stats, parseCommand(trimmed).commandKey,
                         parseCommand(trimmed).argString)

(***************************************************************************)
(* handleSubmit and handleKeyDown.                                         *)
(***************************************************************************)
\* an updater that forgets the cap
recordCommand_noCap(prev, normalized) == <<normalized>> \o filterOut(prev, normalized)

\* an updater that forgets to drop the earlier copy of the line
recordCommand_noDedup(prev, normalized) ==
  sliceTo(<<normalized>> \o prev, MAX_HISTORY_COMMANDS)

\* setCommandHistory's updater
recordCommand(prev, normalized) ==
  sliceTo(<<normalized>> \o filterOut(prev, normalized), MAX_HISTORY_COMMANDS)

\* routing that forgets the pending check: every line goes to the dispatcher
routeSubmit_noIntercept(h, ps, stats, normalized) ==
  { [history |-> r.history, pendingState |-> r.pendingState, sessionStats |-> stats]
    : r \in handleCommand(h, ps, stats, normalized) }

\* routing that lets the reset commands through while a quiz is pending
routeSubmit_resetFirst(h, ps, stats, normalized) ==
  IF ps # Null /\ ps[1].type = "quiz" /\ toLowerCase(normalized) \notin {K_clear, K_cls}
    THEN { handleQuizAnswer(h, ps, stats, normalized) }
    ELSE { [history |-> r.history, pendingState |-> r.pendingState, sessionStats |-> stats]
           : r \in handleCommand(h, ps, stats, normalized) }

\* routing in which a reset command also starts the stats over
routeSubmit_resetClearsStats(h, ps, stats, normalized) ==
  IF ps # Null /\ ps[1].type = "quiz"
    THEN { handleQuizAnswer(h, ps, stats, normalized) }
    ELSE { [history |-> r.history, pendingState |-> r.pendingState,
            sessionStats |-> IF parseCommand(normalized).commandKey \in {K_clear, K_cls}
                               THEN initialStats ELSE stats]
           : r \in handleCommand(h, ps, stats, normalized) }

\* handleSubmit's routing: the quiz handler while a quiz is pending, the
\* dispatcher otherwise; every new (history, pendingState, sessionStats)
routeSubmit(h, ps, stats, normalized) ==
  IF ps # Null /\ ps[1].type = "quiz"
    THEN { handleQuizAnswer(h, ps, stats, normalized) }
    ELSE { [history |-> r.history, pendingState |-> r.pendingState, sessionStats |-> stats]
           : r \in handleCommand(h, ps, stats, normalized) }

\* handleSubmit with the input box holding raw; limit bounds the accepted
\* submissions the model explores
handleSubmit(raw, limit) ==
  LET normalized == normalizeInput(raw)
  IN  IF normalized = <<>>
        THEN /\ inputValue' = raw
             /\ UNCHANGED <<history, pendingState, sessionStats, commandHistory,
                            historyIndexRef, topics, turns, started>>
        ELSE /\ turns < limit
             /\ \E r \in routeSubmit(addEntry(history, "user", <<normalized>>),
                                     pendingState, sessionStats, normalized) :
                  /\ history' = r.history
                  /\ pendingState' = r.pendingState
                  /\ sessionStats' = r.sessionStats
                  /\ started' = IF pendingState = Null /\ r.pendingState # Null
                                  THEN started + 1 ELSE started
             /\ commandHistory' = recordCommand(commandHistory, normalized)
             /\ historyIndexRef' = Null
             /\ inputValue' = <<>>
             /\ turns' = turns + 1
             /\ UNCHANGED topics

\* the form's onSubmit: the user submits what the box holds, either as the
\* recall keys left it or after typing a line (onChange puts it in the box)
Submit(typed, limit) == \E raw \in typed \cup {inputValue} : handleSubmit(raw, limit)

\* commandHistory[i] for a 0-based i: Null stands for undefined
at(seq, i) == IF 0 <= i /\ i < Len(seq) THEN Some(seq[i + 1]) ELSE Null

\* if (nextValue): neither undefined nor the empty string
truthy(v) == v # Null /\ v[1] # <<>>

min(a, b) == IF a < b THEN a ELSE b

\* the index ArrowUp moves to
arrowUpIndex(current, len) == IF current = Null THEN 0 ELSE min(current[1] + 1, len - 1)

\* handleKeyDown, event.key === "ArrowUp"
ArrowUp ==
  LET nextIndex == arrowUpIndex(historyIndexRef, Len(commandHistory))
      nextValue == at(commandHistory, nextIndex)
  IN  /\ IF truthy(nextValue)
           THEN inputValue' = nextValue[1] /\ historyIndexRef' = Some(nextIndex)
           ELSE UNCHANGED <<inputValue, historyIndexRef>>
      /\ UNCHANGED <<history, pendingState, sessionStats, commandHistory, topics, turns, started>>

\* an ArrowDown that tests current < 0 and so steps below the newest entry
ArrowDown_pastNewest ==
  /\ IF historyIndexRef = Null
       THEN UNCHANGED <<inputValue, historyIndexRef>>
       ELSE IF historyIndexRef[1] < 0
         THEN inputValue' = <<>> /\ historyIndexRef' = Null
         ELSE LET nextIndex == historyIndexRef[1] - 1
                  nextValue == at(commandHistory, nextIndex)
              IN  /\ inputValue' = IF truthy(nextValue) THEN nextValue[1] ELSE inputValue
                  /\ historyIndexRef' = Some(nextIndex)
  /\ UNCHANGED <<history, pendingState, sessionStats, commandHistory, topics, turns, started>>

\* handleKeyDown, event.key === "ArrowDown"
ArrowDown ==
  /\ IF historyIndexRef = Null
       THEN UNCHANGED <<inputValue, historyIndexRef>>
       ELSE IF historyIndexRef[1] <= 0
         THEN inputValue' = <<>> /\ historyIndexRef' = Null
         ELSE LET nextIndex == historyIndexRef[1] - 1
                  nextValue == at(commandHistory, nextIndex)
              IN  /\ inputValue' = IF truthy(nextValue) THEN nextValue[1] ELSE inputValue
                  /\ historyIndexRef' = Some(nextIndex)
  /\ UNCHANGED <<history, pendingState, sessionStats, commandHistory, topics, turns, started>>

(***************************************************************************)
(* Specifications.                                                         *)
(***************************************************************************)
\* the lines typed in a quiz session: both hint tokens, both skip tokens,
\* an answer, two commands
Lines == {L_quiz, L_hint, L_Pista, L_Skip, L_omitir, L_tcp, L_help, L_clear}

Next == Submit(Lines, MaxTurns) \/ ArrowUp \/ ArrowDown

Spec == Init /\ [][Next]_vars

\* the lines typed in a session of commands: both quiz commands, both reset
\* commands, help (also an answer), an answer, a blank line
CommandLines == {L_quiz, L_Reto, L_clear, L_CLS, L_help, L_tcp, L_blank}

NextCommands == Submit(CommandLines, MaxTurns) \/ ArrowUp \/ ArrowDown

SpecCommands == Init /\ [][NextCommands]_vars

\* the session after the unknown commands Filler(1), ..., Filler(k) were
\* submitted in that order: each turn appends the user's line and the
\* dispatcher's answer to it
historyAfterFillers(k) ==
  initialHistory \o
  flatten([i \in 1..k |->
    showAssistant(addEntry(<<>>, "user", <<Filler(i)>>),
                  unknownCommand(parseCommand(Filler(i)).commandKey))])

\* the recall buffer of that session: recordCommand put each new line in
\* front, so the fillers lie newest first
recallAfterFillers(k) == [i \in 1..k |-> Filler(k + 1 - i)]

\* the sessions the recall claims start from: a buffer that is full or
\* nearly full, idle or with the quiz command submitted last
InitRecall ==
  /\ topics = Catalog
  /\ \E k \in (MAX_HISTORY_COMMANDS - RecallSlack)..MAX_HISTORY_COMMANDS :
       \E quizLast \in BOOLEAN :
         \E r \in IF quizLast
                    THEN routeSubmit(addEntry(historyAfterFillers(k), "user", <<L_quiz>>),
                                     Null, initialStats, L_quiz)
                    ELSE { [history |-> historyAfterFillers(k), pendingState |-> Null,
                            sessionStats |-> initialStats] } :
           /\ history = r.history
           /\ pendingState = r.pendingState
           /\ sessionStats = r.sessionStats
           /\ commandHistory = IF quizLast THEN recordCommand(recallAfterFillers(k), L_quiz)
                                           ELSE recallAfterFillers(k)
           /\ started = IF quizLast THEN 1 ELSE 0
  /\ inputValue = <<>>
  /\ historyIndexRef = Null
  /\ turns = 0

\* the lines typed against that buffer: a line it does not hold, the line of
\* the last filler, the quiz command, an answer; the recall keys bring back
\* every line it holds
RecallLines == {Filler(MAX_HISTORY_COMMANDS + 1), Filler(MAX_HISTORY_COMMANDS), L_quiz, L_tcp}

NextRecall == Submit(RecallLines, MaxRecallTurns) \/ ArrowUp \/ ArrowDown

SpecRecall == InitRecall /\ [][NextRecall]_vars


(***************************************************************************)
(* Sessions that start quiz rounds with and without a topic argument,      *)
(* against a content store with questions and against one with none.       *)
(***************************************************************************)
L_RetoRedes == <<"R","e","t","o"," ","R","e","d","e","s">>
L_quizWeb   == <<"q","u","i","z"," ","w","e","b">>
L_quizZz    == <<"q","u","i","z"," ","z","z">>

\* a content store none of whose topics has a question
BareCatalog == <<T_web>>

InitQuizStart ==
  /\ history = initialHistory
  /\ inputValue = <<>>
  /\ pendingState = Null
  /\ sessionStats = initialStats
  /\ commandHistory = <<>>
  /\ historyIndexRef = Null
  /\ topics \in {Catalog, BareCatalog}
  /\ turns = 0
  /\ started = 0

\* the quiz command alone, with the alias of a topic that has a question,
\* with the alias of a topic that has none, with a word that names no
\* topic; a skip and an answer to end a round
QuizLines == {L_quiz, L_RetoRedes, L_quizWeb, L_quizZz, L_Skip, L_tcp}

NextQuizStart == Submit(QuizLines, MaxTurns) \/ ArrowUp \/ ArrowDown

SpecQuizStart == InitQuizStart /\ [][NextQuizStart]_vars

(***************************************************************************)
(* Sessions of invalid lines: a word that is no command, commands that     *)
(* miss their argument, a topic and a term the content store does not hold.*)
(***************************************************************************)
L_lesson     == <<"l","e","s","s","o","n">>
L_search     == <<"s","e","a","r","c","h">>
L_question   == <<"q","u","e","s","t","i","o","n">>
L_lessonZz   == <<"l","e","s","s","o","n"," ","z","z">>
L_glossaryZz == <<"g","l","o","s","s","a","r","y"," ","z","z">>

\* tcp is no command; quiz starts a round, which tcp then answers
ErrorLines == {L_tcp, L_lesson, L_search, L_question, L_lessonZz, L_glossaryZz, L_quiz}

NextErrors == Submit(ErrorLines, MaxTurns) \/ ArrowUp \/ ArrowDown

SpecErrors == Init /\ [][NextErrors]_vars

(***************************************************************************)
(* Sessions that use every command of the dispatcher, from a fresh page    *)
(* and from a page on which one round has been played.                     *)
(***************************************************************************)
L_topics      == <<"t","o","p","i","c","s">>
L_lessonRedes == <<"l","e","s","s","o","n"," ","r","e","d","e","s">>
L_resources   == <<"r","e","s","o","u","r","c","e","s">>
L_labs        == <<"l","a","b","s">>
L_glossary    == <<"g","l","o","s","s","a","r","y">>
L_searchTcp   == <<"s","e","a","r","c","h"," ","t","c","p">>
L_roadmap     == <<"r","o","a","d","m","a","p">>
L_suggest     == <<"s","u","g","g","e","s","t">>
L_status      == <<"s","t","a","t","u","s">>
L_questionTcp == <<"q","u","e","s","t","i","o","n"," ","t","c","p">>

\* one line per case of the dispatcher (tcp is the unknown command), with
\* a hint request, a skip and the answers tcp and help for the rounds
DispatchLines ==
  {L_help, L_topics, L_lessonRedes, L_resources, L_labs, L_quiz, L_glossary,
   L_searchTcp, L_roadmap, L_suggest, L_status, L_questionTcp, L_clear, L_tcp,
   L_hint, L_Skip}

\* the states of the page after the trimmed lines have been submitted in
\* turn to a fresh page
RECURSIVE sessionsAfter(_)
sessionsAfter(lines) ==
  IF lines = <<>>
    THEN { [history |-> initialHistory, pendingState |-> Null, sessionStats |-> initialStats,
            commandHistory |-> <<>>, started |-> 0] }
    ELSE LET line == lines[Len(lines)]
         IN  UNION { { [history        |-> r.history,
                        pendingState   |-> r.pendingState,
                        sessionStats   |-> r.sessionStats,
                        commandHistory |-> recordCommand(s.commandHistory, line),
                        started        |-> IF s.pendingState = Null /\ r.pendingState # Null
                                             THEN s.started + 1 ELSE s.started]
                       : r \in routeSubmit(addEntry(s.history, "user", <<line>>),
                                           s.pendingState, s.sessionStats, line) }
                     : s \in sessionsAfter(SubSeq(lines, 1, Len(lines) - 1)) }

\* a fresh page, or a page after quiz and tcp: a round won (streak 1) or,
\* on the other question, a round with one wrong answer
InitDispatch ==
  /\ topics = Catalog
  /\ \E played \in {<<>>, <<L_quiz, L_tcp>>} :
       \E s \in sessionsAfter(played) :
         /\ history = s.history
         /\ pendingState = s.pendingState
         /\ sessionStats = s.sessionStats
         /\ commandHistory = s.commandHistory
         /\ started = s.started
  /\ inputValue = <<>>
  /\ historyIndexRef = Null
  /\ turns = 0

NextDispatch == Submit(DispatchLines, MaxShortTurns) \/ ArrowUp \/ ArrowDown

SpecDispatch == InitDispatch /\ [][NextDispatch]_vars

(***************************************************************************)
(* Sessions that separate the command from its argument by one space, by   *)
(* two spaces and by a tab.                                                *)
(***************************************************************************)
L_LESSON2Redes  == <<"L","E","S","S","O","N"," "," ","R","e","d","e","s">>
L_lessonTabRedes == <<"l","e","s","s","o","n","\t","R","e","d","e","s">>

ParseLines == {L_lessonRedes, L_LESSON2Redes, L_lessonTabRedes, L_RetoRedes, L_tcp}

NextParse == Submit(ParseLines, MaxTurns) \/ ArrowUp \/ ArrowDown

SpecParse == Init /\ [][NextParse]_vars

(***************************************************************************)
(* Vocabulary of the properties.                                           *)
(***************************************************************************)
Idle == pendingState = Null

Active == pendingState # Null

\* every line a submission of some specification may hold
Candidates == Lines \cup CommandLines \cup RecallLines \cup {inputValue}

\* the step is handleSubmit accepting the line raw
Accepted(raw) ==
  /\ turns' = turns + 1
  /\ normalizeInput(raw) # <<>>
  /\ commandHistory' # <<>>
  /\ commandHistory'[1] = normalizeInput(raw)
  /\ handleSubmit(raw, turns + 1)

\* the trimmed line a step accepts: handleSubmit puts it first in the
\* recall buffer
acceptedLine == commandHistory'[1]

\* the step is handleSubmit accepting some line
AcceptedSome ==
  /\ turns' = turns + 1
  /\ commandHistory' # <<>>
  /\ Accepted(acceptedLine)

\* what the quiz reads of a line
answerText(raw) == toLowerCase(trim(raw))

HintWords == {S_hint, S_pista}

SkipWords == {S_skip, S_omitir}

\* the line is the pending question's answer in some letter case
MatchesAnswer(raw) == answerText(raw) = toLowerCase(pendingState[1].question.answer)

\* the line is neither a hint request, nor a skip request, nor the answer
WrongAnswer(raw) ==
  /\ answerText(raw) \notin HintWords \cup SkipWords
  /\ ~MatchesAnswer(raw)

\* the last two entries of the transcript: the user's line and the reply
lastUser == history[Len(history) - 1]

lastReply == history[Len(history)]

\* the turn that just ended was the accepted line, answered by a reply that
\* starts with the text opening
TurnWas(line, opening) ==
  /\ Len(history) >= 3
  /\ lastUser.role = "user" /\ lastUser.content = <<line>>
  /\ lastReply.role = "assistant" /\ lastReply.content[1] = opening

\* the command token of a trimmed line as the specification words it: the
\* text before the first run of whitespace, in lower case
RECURSIVE firstWord(_)
firstWord(line) ==
  IF line = <<>> \/ Head(line) \in WhiteSpace THEN <<>>
  ELSE <<Head(line)>> \o firstWord(Tail(line))

commandToken(line) == toLowerCase(firstWord(line))

\* the argument of a trimmed line as the specification words it: the text
\* after that run of whitespace, trimmed, in its original letter case
argumentText(line) == trim(SubSeq(line, Len(firstWord(line)) + 1, Len(line)))

Range(seq) == {seq[i] : i \in 1..Len(seq)}

(***************************************************************************)
(* C1: while a quiz is pending, every accepted line (also quiz, reto,      *)
(* clear, help) is handled by the quiz handler and not by the dispatcher:  *)
(* the turn's outcome is the quiz handler's and none of the dispatcher's,  *)
(* no new round starts, the pending question is kept or resolved but never *)
(* replaced, and the transcript is only appended to.                       *)
(***************************************************************************)
C1_ActiveLineGoesToQuiz ==
  [][\A raw \in Candidates :
       (Active /\ Accepted(raw)) =>
         LET line == normalizeInput(raw)
             h1   == addEntry(history, "user", <<line>>)
             q    == handleQuizAnswer(h1, pendingState, sessionStats, line)
         IN  /\ history' = q.history
             /\ pendingState' = q.pendingState
             /\ sessionStats' = q.sessionStats
             /\ \A c \in handleCommand(h1, pendingState, sessionStats, line) :
                  c.history # history'
             /\ started' = started
             /\ (pendingState' = Null \/
                 pendingState'[1].question = pendingState[1].question)
             /\ Len(pendingState') <= 1
             /\ SubSeq(history', 1, Len(history)) = history]_vars

\* clear was typed while a quiz was pending and was taken as a first wrong answer
C1_Witness ==
  /\ Active
  /\ pendingState[1].attempts = 1
  /\ TurnWas(L_clear,
       <<"Respuesta incorrecta. Puedes intentar nuevamente, pedir 'hint' o escribir 'skip'.">>)

(***************************************************************************)
(* C2: every started question is accounted for exactly once: the rounds    *)
(* started so far are the answered ones plus the one pending, if any.      *)
(***************************************************************************)
C2_StartedAccounted ==
  started = sessionStats.answered + (IF Active THEN 1 ELSE 0)

\* one round was resolved and the next is pending after a first wrong answer
C2_Witness ==
  /\ Active
  /\ started = 2
  /\ sessionStats.answered = 1
  /\ pendingState[1].attempts = 1

(***************************************************************************)
(* C3: correct <= answered, and answered, correct and streak are never     *)
(* negative.                                                               *)
(***************************************************************************)
C3_CorrectAtMostAnswered ==
  /\ sessionStats.correct <= sessionStats.answered
  /\ sessionStats.answered >= 0
  /\ sessionStats.correct >= 0
  /\ sessionStats.streak >= 0

\* a session with a right answer and a round lost
C3_Witness ==
  /\ sessionStats.answered = 2
  /\ sessionStats.correct = 1

(***************************************************************************)
(* C4: while a quiz is pending, a line that after trimming and             *)
(* lower-casing equals the lower-cased answer, and is no hint or skip      *)
(* token, resolves the round as correct whatever the letter case typed,    *)
(* the attempts and revealedHint: answered, correct and streak each grow   *)
(* by exactly 1 and the quiz becomes idle.                                 *)
(***************************************************************************)
C4_RightAnswerResolves ==
  [][\A raw \in Candidates :
       (/\ Active
        /\ MatchesAnswer(raw)
        /\ answerText(raw) \notin HintWords \cup SkipWords
        /\ Accepted(raw)) =>
         /\ sessionStats'.answered = sessionStats.answered + 1
         /\ sessionStats'.correct = sessionStats.correct + 1
         /\ sessionStats'.streak = sessionStats.streak + 1
         /\ pendingState' = Null]_vars

\* tcp, typed in lower case for the answer TCP, was accepted after a hint
\* and a first wrong answer
C4_Witness ==
  /\ Idle
  /\ sessionStats = [answered |-> 1, correct |-> 1, streak |-> 1]
  /\ TurnWas(L_tcp, <<"Correcto!">>)
  /\ \E i \in 1..Len(history) : history[i].content[1] = hintText(Q_tcp)
  /\ \E i \in 1..Len(history) :
       history[i].content[1] =
         <<"Respuesta incorrecta. Puedes intentar nuevamente, pedir 'hint' o escribir 'skip'.">>

C6_SkipResolves ==
  [][\A raw \in Candidates :
       (Active /\ answerText(raw) \in SkipWords /\ Accepted(raw)) =>
         /\ sessionStats' = [answered |-> sessionStats.answered + 1,
                             correct  |-> sessionStats.correct,
                             streak   |-> 0]
         /\ pendingState' = Null]_vars

\* a round was skipped right after a round was won: the streak fell from 1 to 0
C6_Witness ==
  /\ Idle
  /\ sessionStats = [answered |-> 2, correct |-> 1, streak |-> 0]
  /\ TurnWas(trim(L_Skip), <<"Pregunta omitida. Respuesta correcta: ">> \o Q_tcp.answer)

(***************************************************************************)
(* C7: while a quiz is pending, a hint token (hint or pista) leaves the    *)
(* quiz pending with revealedHint = TRUE and the same question, attempts   *)
(* and stats: the first one sets the flag, every later one changes no      *)
(* state of the quiz at all. A hint request never counts as an attempt.    *)
(***************************************************************************)
C7_HintIdempotent ==
  [][\A raw \in Candidates :
       (Active /\ answerText(raw) \in HintWords /\ Accepted(raw)) =>
         /\ pendingState' = Some([pendingState[1] EXCEPT !.revealedHint = TRUE])
         /\ pendingState[1].revealedHint => pendingState' = pendingState
         /\ sessionStats' = sessionStats
         /\ started' = started]_vars

\* a second hint was asked for, with pista, after a first wrong answer, and
\* was answered by the warning
C7_Witness ==
  /\ Active
  /\ pendingState[1].revealedHint
  /\ pendingState[1].attempts = 1
  /\ TurnWas(trim(L_Pista), <<"Ya mostre una pista para esta pregunta. Intenta una respuesta.">>)

(***************************************************************************)
(* C8: submitting clear or cls.                                            *)
(***************************************************************************)
\* the line is the reset command, in any letter case
ResetLine(raw) == answerText(raw) \in {K_clear, K_cls}

\* C8 as stated: submitting clear (or cls) resets the history to exactly the
\* one-entry boot transcript and leaves no pending quiz, whatever the history
\* and the quiz state before
C8_ClearAsStated ==
  [][\A raw \in Candidates :
       (ResetLine(raw) /\ Accepted(raw)) =>
         /\ history' = initialHistory
         /\ pendingState' = Null]_vars

\* C8 as amended: submitted while no quiz is pending, clear (or cls) leaves
\* the boot entry followed by the single assistant entry that confirms the
\* reset, and no pending quiz, whatever the history before; submitted while
\* a quiz is pending it resets nothing: the transcript only grows by the
\* user's line and the quiz's reply
C8_ClearWhileIdle ==
  [][\A raw \in Candidates :
       (ResetLine(raw) /\ Accepted(raw)) =>
         /\ Idle =>
              /\ Len(history') = 2
              /\ history'[1] = initialHistory[1]
              /\ history'[2].role = "assistant"
              /\ history'[2].content = << <<"Pantalla limpia. Continuemos.">> >>
              /\ pendingState' = Null
         /\ Active =>
              /\ Len(history') = Len(history) + 2
              /\ SubSeq(history', 1, Len(history)) = history]_vars

\* cls was submitted after two rounds of a quiz had filled the transcript
C8_Witness ==
  /\ turns = 4
  /\ sessionStats.answered >= 1
  /\ Len(history) = 2
  /\ history[2].content = << <<"Pantalla limpia. Continuemos.">> >>
  /\ commandHistory[1] = L_CLS
  /\ Idle

(***************************************************************************)
(* C9: the recall buffer never holds more than 30 entries, never holds a   *)
(* line twice and never holds an empty line, also after answers typed      *)
(* while a quiz is pending.                                                *)
(***************************************************************************)
C9_RecallBounded ==
  /\ Len(commandHistory) <= 30
  /\ \A i, j \in 1..Len(commandHistory) :
       commandHistory[i] = commandHistory[j] => i = j
  /\ \A i \in 1..Len(commandHistory) : commandHistory[i] # <<>>

\* an answer was typed while a quiz was pending and the buffer was full
C9_Witness ==
  /\ Len(commandHistory) = 30
  /\ commandHistory[1] = L_tcp
  /\ commandHistory[2] = L_quiz
  /\ sessionStats.answered = 1

(***************************************************************************)
(* C10: after an accepted submission of the trimmed line L the buffer's    *)
(* first entry is L and the rest is the previous buffer without L, in its  *)
(* previous order, cut so that the total is at most 30; resubmitting a     *)
(* line of the buffer leaves its length unchanged, and a new line          *)
(* submitted to a full buffer evicts exactly the oldest (last) entry.      *)
(***************************************************************************)
C10_MoveToFront ==
  [][\A raw \in Candidates :
       Accepted(raw) =>
         LET L   == trim(raw)
             old == commandHistory
             new == commandHistory'
         IN  /\ new[1] = L
             /\ Len(new) <= 30
             /\ L \in Range(old) =>
                  /\ Len(new) = Len(old)
                  /\ \E p \in 1..Len(old) :
                       /\ old[p] = L
                       /\ \A i \in 1..(p - 1) : new[i + 1] = old[i]
                       /\ \A i \in (p + 1)..Len(old) : new[i] = old[i]
             /\ L \notin Range(old) =>
                  /\ Len(new) = min(Len(old) + 1, 30)
                  /\ \A i \in 2..Len(new) : new[i] = old[i - 1]
                  /\ Len(old) = 30 => Range(old) \ Range(new) = {old[30]}]_vars

\* a new line was submitted to a full buffer: the oldest filler was evicted
C10_Witness ==
  /\ Len(commandHistory) = 30
  /\ commandHistory[1] = Filler(31)
  /\ commandHistory[30] = Filler(2)
  /\ Filler(1) \notin Range(commandHistory)

(***************************************************************************)
(* C11: the quiz state machine starts Idle (no line accepted yet means no  *)
(* pending question), and in every reachable Active state the attempts     *)
(* counter is 0 or 1, never 2 while a question is pending, and             *)
(* revealedHint is a boolean.                                              *)
(***************************************************************************)
C11_AttemptsBelowTwo ==
  /\ turns = 0 => Idle
  /\ Active =>
       /\ pendingState[1].type = "quiz"
       /\ pendingState[1].attempts \in {0, 1}
       /\ pendingState[1].revealedHint \in BOOLEAN

\* a round that took one wrong answer and one hint is still pending
C11_Witness ==
  /\ Active
  /\ pendingState[1].attempts = 1
  /\ pendingState[1].revealedHint = TRUE
  /\ turns = 3

(***************************************************************************)
(* C12: an accepted quiz or reto line, with or without a topic argument,   *)
(* submitted while Idle leaves the session stats unchanged and: when the   *)
(* content store has a question, makes the state Active with attempts 0,   *)
(* revealedHint false and a question of the named topic if the argument    *)
(* resolves to a topic that has a question, of the whole store otherwise,  *)
(* and prints that question; when the store has no question, prints the    *)
(* unavailability message and stays Idle.                                  *)
(***************************************************************************)
C12_QuizStart ==
  [][(/\ AcceptedSome
      /\ Idle
      /\ commandToken(acceptedLine) \in {K_quiz, K_reto}) =>
         LET arg   == argumentText(acceptedLine)
             named == IF arg # <<>> THEN findTopicByAlias(arg) ELSE Null
             pool  == IF named # Null /\ Len(named[1].quiz) > 0
                        THEN Range(named[1].quiz)
                        ELSE Range(getAllQuizQuestions)
             reply == history'[Len(history')]
         IN  /\ sessionStats' = sessionStats
             /\ Len(history') = Len(history) + 2
             /\ reply.role = "assistant"
             /\ IF getAllQuizQuestions # <<>>
                  THEN /\ pendingState' # Null
                       /\ pendingState'[1].type = "quiz"
                       /\ pendingState'[1].attempts = 0
                       /\ pendingState'[1].revealedHint = FALSE
                       /\ pendingState'[1].question \in pool
                       /\ reply.content[1] = <<"Pregunta: ">> \o pendingState'[1].question.prompt
                  ELSE /\ pendingState' = Null
                       /\ reply.content = << <<"No hay preguntas disponibles por ahora.">> >>]_vars

\* after a resolved round, a round on the topic redes was started: its
\* question is that topic's, untouched, and the stats are those of the
\* first round
C12_Witness ==
  /\ Active
  /\ lastUser.role = "user" /\ lastUser.content = <<L_RetoRedes>>
  /\ pendingState[1].question = Q_tcp
  /\ pendingState[1].attempts = 0
  /\ pendingState[1].revealedHint = FALSE
  /\ sessionStats.answered = 1

\* every command token the dispatcher knows
KnownTokens ==
  {K_help, K_qmark, K_topics, K_lesson, K_tema, K_topic, K_resources, K_recursos,
   K_labs, K_lab, K_quiz, K_reto, K_glossary, K_glosario, K_search, K_buscar,
   K_roadmap, K_ruta, K_suggest, K_actividad, K_status, K_question, K_pregunta,
   K_clear, K_cls}

\* the trimmed line is one of the invalid inputs: an unknown command token,
\* lesson, search or question without argument, a lesson argument that
\* matches no topic, a glossary term that is not found
InvalidLine(line) ==
  LET c == commandToken(line)
      a == argumentText(line)
  IN  \/ c \notin KnownTokens
      \/ c \in {K_lesson, K_tema, K_topic, K_search, K_buscar, K_question, K_pregunta} /\ a = <<>>
      \/ c \in {K_lesson, K_tema, K_topic} /\ a # <<>> /\ findTopicByAlias(a) = Null
      \/ c \in {K_glossary, K_glosario} /\ a # <<>> /\ lookupGlossary(a) = Null

(***************************************************************************)
(* C13: while Idle, an accepted invalid line (unknown command token;       *)
(* lesson, search or question without argument; lesson with an argument    *)
(* that matches no topic; glossary with a term that is not found) appends  *)
(* the user's line and exactly one assistant text entry, leaves the quiz   *)
(* state Idle and the session stats unchanged; and the session stays       *)
(* interactive: the line accepted next gets its user entry and a reply,    *)
(* and starts a round if it is the quiz command.                           *)
(***************************************************************************)
C13_InvalidInputRecovered ==
  /\ [][(AcceptedSome /\ Idle /\ InvalidLine(acceptedLine)) =>
            LET n == Len(history)
            IN  /\ Len(history') = n + 2
                /\ SubSeq(history', 1, n) = history
                /\ history'[n + 1].role = "user"
                /\ history'[n + 1].content = <<acceptedLine>>
                /\ history'[n + 2].role = "assistant"
                /\ history'[n + 2].content # <<>>
                /\ pendingState' = Null
                /\ sessionStats' = sessionStats]_vars
  /\ [][(/\ AcceptedSome
           /\ Idle /\ Len(history) >= 3
           /\ lastUser.role = "user"
           /\ InvalidLine(lastUser.content[1])) =>
            LET n == Len(history)
            IN  /\ history'[n + 1].role = "user"
                /\ history'[n + 1].content = <<acceptedLine>>
                /\ history'[Len(history')].role = "assistant"
                /\ commandToken(acceptedLine) \in {K_quiz, K_reto} => pendingState' # Null]_vars

\* after three kinds of invalid line in a row nothing but the transcript
\* and the recall buffer had changed, and the quiz command submitted next
\* started a round
C13_Witness ==
  /\ Active
  /\ sessionStats = initialStats
  /\ Len(history) = 9
  /\ history[2].content = <<L_lesson>>
  /\ history[4].content = <<L_glossaryZz>>
  /\ history[6].content = <<L_tcp>>
  /\ history[8].content = <<L_quiz>>
  /\ history[9].role = "assistant"

(***************************************************************************)
(* C14: the session stats change only in a step that resolves a pending    *)
(* quiz question (Active before, Idle after): no line accepted while Idle, *)
(* whatever command of the dispatcher it holds, no hint request and no     *)
(* first wrong answer changes answered, correct or streak, and neither     *)
(* does a recall key or a rejected line; in every step answered and        *)
(* correct do not decrease and streak is kept, raised by 1 or reset to 0.  *)
(***************************************************************************)
C14_StatsOnlyByResolution ==
  [][/\ sessionStats' # sessionStats => (Active /\ pendingState' = Null)
     /\ (AcceptedSome /\ Idle) => sessionStats' = sessionStats
     /\ (AcceptedSome /\ Active /\ answerText(acceptedLine) \in HintWords)
          => sessionStats' = sessionStats
     /\ (AcceptedSome /\ Active /\ pendingState[1].attempts = 0 /\ WrongAnswer(acceptedLine))
          => sessionStats' = sessionStats
     /\ sessionStats'.answered >= sessionStats.answered
     /\ sessionStats'.correct >= sessionStats.correct
     /\ sessionStats'.streak \in {sessionStats.streak, sessionStats.streak + 1, 0}]_vars

\* a round was won, the quiz command then started a second round without
\* touching the stats, and the skip of that round reset the streak
C14_Witness ==
  /\ Idle
  /\ sessionStats = [answered |-> 2, correct |-> 1, streak |-> 0]
  /\ Len(history) = 9
  /\ history[6].content = <<L_quiz>>
  /\ lastUser.content = <<trim(L_Skip)>>

(***************************************************************************)
(* C15: submitting a line that is empty after trimming leading and         *)
(* trailing whitespace does nothing: no history entry is appended, the     *)
(* recall buffer and the recall cursor are unchanged, nothing is           *)
(* dispatched, the quiz state (so the attempts of a pending question) and  *)
(* the stats are unchanged, and the line is not counted as accepted.       *)
(***************************************************************************)
C15_BlankLineIgnored ==
  [][\A raw \in CommandLines \cup {inputValue} :
       (trim(raw) = <<>> /\ handleSubmit(raw, MaxTurns)) =>
         UNCHANGED <<history, commandHistory, historyIndexRef, pendingState,
                     sessionStats, started, turns>>]_vars

\* a blank line was submitted while a question was pending and a recalled
\* line was selected: the question has no attempt and the cursor is there
C15_Witness ==
  /\ inputValue = L_blank
  /\ Active
  /\ pendingState[1].attempts = 0
  /\ historyIndexRef # Null
  /\ turns = 2

\* C16 as stated: after every accepted line the history ends with the user
\* entry holding that line, immediately followed by an assistant entry; the
\* entries that were there are kept as they were, except when the line is
\* the reset command; and no other step touches the history
C16_OrderingAsStated ==
  [][/\ AcceptedSome =>
          LET n == Len(history')
          IN  /\ n >= 2
              /\ history'[n - 1].role = "user"
              /\ history'[n - 1].content = <<acceptedLine>>
              /\ history'[n].role = "assistant"
              /\ commandToken(acceptedLine) \notin {K_clear, K_cls} =>
                   /\ n = Len(history) + 2
                   /\ SubSeq(history', 1, Len(history)) = history
     /\ ~AcceptedSome => history' = history]_vars

(***************************************************************************)
(* C16: every accepted line but a reset command handled while Idle grows   *)
(* the history by exactly the user entry holding the line followed by one  *)
(* assistant entry holding the turn's output, all earlier entries being    *)
(* kept unchanged and in place; a reset command (clear, cls) handled while *)
(* Idle leaves the boot entry followed by its assistant confirmation, the  *)
(* user entry of the reset line being discarded with the rest; no other    *)
(* step touches the history.                                               *)
(***************************************************************************)
C16_TranscriptOrdering ==
  [][/\ (AcceptedSome /\ ~(Idle /\ commandToken(acceptedLine) \in {K_clear, K_cls})) =>
          LET n == Len(history)
          IN  /\ Len(history') = n + 2
              /\ SubSeq(history', 1, n) = history
              /\ history'[n + 1].role = "user"
              /\ history'[n + 1].content = <<acceptedLine>>
              /\ history'[n + 2].role = "assistant"
              /\ history'[n + 2].content # <<>>
     /\ (AcceptedSome /\ Idle /\ commandToken(acceptedLine) \in {K_clear, K_cls}) =>
          /\ Len(history') = 2
          /\ history'[1] = initialHistory[1]
          /\ history'[2].role = "assistant"
          /\ \A i \in 1..2 : history'[i].content # <<acceptedLine>>
     /\ ~AcceptedSome => history' = history]_vars

\* clear was handled once while Idle and once, as a wrong answer, while a
\* question was pending: the second time its user entry stayed
C16_Witness ==
  /\ Len(history) = 6
  /\ history[2].role = "assistant"
  /\ history[3].content = <<L_quiz>>
  /\ history[5].role = "user" /\ history[5].content = <<L_clear>>
  /\ history[6].role = "assistant"
  /\ Active

(***************************************************************************)
(* C17: a pending round is resolved within two accepted lines that are not *)
(* hint tokens. The attempts of a pending question are 0 or 1 and count    *)
(* the non-hint lines the round has survived; an accepted non-hint line    *)
(* either resolves the round (always when it is the answer or a skip, and  *)
(* always when attempts is 1) or, when attempts is 0, raises attempts to 1 *)
(* on the same question; a hint token keeps the round pending with the     *)
(* same attempts and the same question, so only hint tokens can keep a     *)
(* round Active for more than two accepted lines.                          *)
(***************************************************************************)
C17_RoundResolvesInTwo ==
  [][(AcceptedSome /\ Active) =>
       LET line  == acceptedLine
           round == pendingState[1]
       IN  /\ round.attempts \in {0, 1}
           /\ answerText(line) \in HintWords =>
                /\ pendingState' # Null
                /\ pendingState'[1].attempts = round.attempts
                /\ pendingState'[1].question = round.question
           /\ answerText(line) \notin HintWords =>
                /\ (round.attempts = 1 \/ MatchesAnswer(line) \/ answerText(line) \in SkipWords)
                     => pendingState' = Null
                /\ pendingState' # Null =>
                     /\ round.attempts = 0
                     /\ pendingState'[1].attempts = 1
                     /\ pendingState'[1].question = round.question]_vars

\* one round, ended by the second of two wrong answers with a hint request
\* between them
C17_Witness ==
  /\ Idle
  /\ started = 1
  /\ Len(history) = 9
  /\ history[6].content = <<L_hint>>
  /\ sessionStats = [answered |-> 1, correct |-> 0, streak |-> 0]
  /\ lastReply.content[1] = <<"Respuesta incorrecta.">>

(***************************************************************************)
(* C18: the recall cursor is always absent or an index of the recall       *)
(* buffer (0 is the most recent entry). With a non-empty buffer, ArrowUp   *)
(* from no cursor selects index 0 and from index i selects i + 1, but      *)
(* stays at the oldest entry, index length - 1; ArrowDown does nothing     *)
(* with no cursor, from an index above 0 selects the index below, and from *)
(* index 0 clears the input and the cursor; the input shows the selected   *)
(* entry; the keys leave everything else alone; and every accepted         *)
(* submission leaves the cursor absent.                                    *)
(***************************************************************************)
C18_RecallNavigation ==
  /\ [](\/ historyIndexRef = Null
        \/ historyIndexRef[1] \in 0..(Len(commandHistory) - 1))
  /\ [][/\ (ArrowUp /\ commandHistory # <<>>) =>
             LET last == Len(commandHistory) - 1
                 to   == IF historyIndexRef = Null THEN 0
                         ELSE IF historyIndexRef[1] < last THEN historyIndexRef[1] + 1
                         ELSE last
             IN  /\ historyIndexRef' = Some(to)
                 /\ inputValue' = commandHistory[to + 1]
        /\ ArrowDown =>
             IF historyIndexRef = Null
               THEN UNCHANGED <<inputValue, historyIndexRef>>
               ELSE IF historyIndexRef[1] > 0
                 THEN /\ historyIndexRef' = Some(historyIndexRef[1] - 1)
                      /\ inputValue' = commandHistory[historyIndexRef[1]]
                 ELSE /\ historyIndexRef' = Null
                      /\ inputValue' = <<>>
        /\ (ArrowUp \/ ArrowDown) =>
             UNCHANGED <<history, pendingState, sessionStats, commandHistory, turns>>
        /\ AcceptedSome => historyIndexRef' = Null]_vars

\* after three submissions, each of which had reset the cursor, the keys
\* walked up to the oldest entry of the buffer, the first line submitted
C18_Witness ==
  /\ turns = 3
  /\ Len(commandHistory) = 3
  /\ historyIndexRef = Some(2)
  /\ inputValue = commandHistory[3]
  /\ history[2].content = <<inputValue>>

(***************************************************************************)
(* C19: an accepted line handled by the dispatcher is handled as the       *)
(* command that is its text before the first run of spaces or tabs, in     *)
(* lower case, with the argument that is the rest of the line after that   *)
(* run, trimmed, in its original letter case: the turn's outcome is one    *)
(* the dispatcher's switch gives for that command and that argument.       *)
(***************************************************************************)
C19_ParsingAsStated ==
  [][(AcceptedSome /\ Idle) =>
       [history |-> history', pendingState |-> pendingState'] \in
         switchCommand(addEntry(history, "user", <<acceptedLine>>), pendingState, sessionStats,
                       commandToken(acceptedLine), argumentText(acceptedLine))]_vars

\* the line lesson<TAB>Redes was answered as an unknown command whose name
\* is the whole line in lower case
C19_Witness ==
  TurnWas(L_lessonTabRedes, <<"Comando desconocido: ">> \o toLowerCase(L_lessonTabRedes))

(***************************************************************************)
(* C20: in every reachable state streak <= correct, hence                  *)
(* streak <= correct <= answered: the streak is raised only together with  *)
(* correct and otherwise reset to 0, and correct is never lowered.         *)
(***************************************************************************)
C20_StreakAtMostCorrect ==
  /\ sessionStats.streak <= sessionStats.correct
  /\ sessionStats.correct <= sessionStats.answered
  /\ sessionStats.streak >= 0

\* a round won, a round skipped, and a third round started: the streak
\* (0) is below correct (1), which is below answered (2)
C20_Witness ==
  /\ sessionStats.streak < sessionStats.correct
  /\ sessionStats.correct < sessionStats.answered
  /\ started = 2
  /\ Idle

(***************************************************************************)
(* C21: the reset that an accepted clear or cls line performs (the line is *)
(* handled by the dispatcher, no quiz pending) touches only the transcript *)
(* and the pending quiz state: answered, correct and streak are unchanged, *)
(* and the recall buffer is not emptied, its only change being that the    *)
(* submitted line is recorded at the front, ahead of the entries it held   *)
(* before, which keep their order.                                         *)
(***************************************************************************)
C21_ClearKeepsStatsAndRecall ==
  [][(AcceptedSome /\ Idle /\ commandToken(acceptedLine) \in {K_clear, K_cls}) =>
       LET line      == acceptedLine
           Others(x) == x # line
           kept      == SelectSeq(commandHistory, Others)
       IN  /\ sessionStats' = sessionStats
           /\ started' = started
           /\ topics' = topics
           /\ commandHistory' # <<>>
           /\ commandHistory'[1] = line
           /\ Len(kept) < MAX_HISTORY_COMMANDS => commandHistory' = <<line>> \o kept
           /\ pendingState' = Null
           /\ Len(history') = 2]_vars

\* a round was won and the screen then cleared: the stats of the round and
\* the two lines of the round are still there, behind the clear line
C21_Witness ==
  /\ Len(history) = 2
  /\ history[2].content = << <<"Pantalla limpia. Continuemos.">> >>
  /\ sessionStats = [answered |-> 1, correct |-> 1, streak |-> 1]
  /\ commandHistory = <<L_clear, L_tcp, L_quiz>>
  /\ Idle

=============================================================================
